---- MODULE Spec2Model ----
(***************************************************************************)
(* Memory Persistence & Encryption Layer of rohitshukla11/Loops:           *)
(* MemoryService (orchestrator), KeyManagementService and                  *)
(* GolemStorageService (ledger storage adapter), as state machines.        *)
(*                                                                         *)
(* Strings are modelled by what the code looks at: a text token, the       *)
(* record id (if any) whose text the string contains, its length, and      *)
(* whether it ends in the truncation marker.  A serialized encrypted       *)
(* envelope is a string that contains neither token nor id text; it        *)
(* remembers the string it was made from and the key material that opens   *)
(* it.  SHA-256 based derivation is modelled as an injective function of   *)
(* its inputs.  uuidv4() hands out 1, 2, ...; a caller text may contain    *)
(* the text of an id, that of an earlier record or, by coincidence, the    *)
(* one uuidv4() is about to return.                                        *)
(***************************************************************************)
EXTENDS Integers, Sequences, FiniteSets, TLC

\* ---------------------------------------------------------------- bounds
\* number of ids uuidv4() hands out (createMemory calls)
MaxMemories == 2
\* highest metadata.version an update may produce
MaxVersion == 3
\* number of concurrent callers in the interleaving specification
MaxProcs == 2
\* number of keys encryptionService.generateKeyPair() hands out
MaxOwnKeys == 2
\* number of direct generateMemoryKey calls that pass the master key check
MaxKeyCalls == 2
\* the clock stops at this many times REQUEST_DELAY
MaxTime == 3
\* number of records earlier sessions left on the ledger for the owner
MaxOwned == 11
\* highest pending transaction count the node reports
MaxPending == 2

\* ------------------------------------------------------- program constants
MAX_CONTENT_SIZE == 10000
TRUNC_CUT == 100
TRUNC_MARKER_LEN == 14
MAX_TX_SIZE == 200000
DEFAULT_SEARCH_LIMIT == 10
REQUEST_DELAY == 3000
\* length of the JSON text of an envelope beyond the text it encrypts
ENVELOPE_OVERHEAD == 200
\* length of the JSON frame of memoryData beyond content, category and tags
JSON_FRAME_LEN == 300

ShortLen == 11
LongLen == 50000
HugeLen == 100000

\* the step of the clock
TickLength == REQUEST_DELAY \div 2

Ids == 1..MaxMemories
Procs == 1..MaxProcs

\* ---------------------------------------------------------------- strings
\* a text: its token, the ids whose text it contains, its length
Plain(txt, ids, len) ==
  [kind |-> "plain", txt |-> txt, ids |-> ids, len |-> len, trunc |-> FALSE]

\* a search text / a tag: a token and the ids whose text it contains
Word(txt, ids) == [txt |-> txt, ids |-> ids]
EmptyQuery == Word("", {})
IdText(id) == Word("", {id})

\* String.prototype.includes(query), after toLowerCase on both sides
Includes(s, q) ==
  \/ q = EmptyQuery
  \/ /\ s.kind = "plain"
     /\ \/ (q.ids # {} /\ q.ids \subseteq s.ids)
        \/ (q.txt # "" /\ s.txt = q.txt)

TagIncludes(t, q) ==
  \/ q = EmptyQuery
  \/ (q.ids # {} /\ q.ids \subseteq t.ids)
  \/ (q.txt # "" /\ t.txt = q.txt)

TagLen(t) == IF t.ids # {} THEN 36 ELSE 4

RECURSIVE SumTagLen(_)
SumTagLen(T) ==
  IF T = {} THEN 0
  ELSE LET t == CHOOSE x \in T : TRUE IN TagLen(t) + SumTagLen(T \ {t})

\* content.substring(0, MAX_CONTENT_SIZE - 100) + '...[TRUNCATED]'
Truncate(s) ==
  [s EXCEPT !.len = (MAX_CONTENT_SIZE - TRUNC_CUT) + TRUNC_MARKER_LEN, !.trunc = TRUE]

\* ------------------------------------------------------- key management
\* secrets, salts and key ids are tagged tuples, so that any of them can be
\* compared with any other
NoMaster == <<"undefined">>
Password(pw) == <<"master", pw>>
NoSalt == <<"undefined">>
\* the empty string given as a salt
EmptySalt == <<"">>
Salt(n) == <<"salt", n>>
NoKeyId == <<"undefined">>
MemoryKeyId(memoryId) == <<"memory", memoryId>>

\* deriveKey(`${masterKey}_${memoryId}_${salt}`, salt): two chained SHA-256
deriveKey(master, memoryId, salt) == <<"derived", master, memoryId, salt>>

\* the EncryptionKey record generateMemoryKey builds and caches
MemoryKey(master, memoryId, salt) ==
  [keyId |-> MemoryKeyId(memoryId),
   privateKey |-> deriveKey(master, memoryId, salt),
   salt |-> salt]


\* ------------------------------------------------------------------ state
VARIABLES
  masterKey,    \* KeyManagementService.masterKey
  sessionKeys,  \* KeyManagementService.sessionKeys: keyId -> EncryptionKey
  encKeys,      \* EncryptionService's own key store, in insertion order
  ledger,       \* remote ledger: entity key -> stored memoryData
  nextHandle,   \* next entity key the ledger hands out
  entityKeys,   \* GolemStorageService.entityKeys (locally tracked handles)
  nextId,       \* next id uuidv4() returns
  txLock,       \* GolemStorageService.txLock
  nonceLock,    \* GolemStorageService.nonceLock
  currentNonce, \* GolemStorageService.currentNonce: <<>> for null, <<n>> for n
  okUpdates,    \* history: number of updateMemory calls that returned, per id
  created,      \* history: ids createMemory returned, with the input content
  granted,      \* history: per id, the last grant / revoke that returned true
  pc,           \* per caller: the await point it is suspended at
  loc,          \* per caller: the locals of its call
  ret,          \* the last completed call and what it returned
  clock,            \* Date.now()
  lastRequestTime,  \* MemoryService.lastRequestTime
  calls,        \* history: number of createMemory calls issued so far
  writeLog,     \* history: the write calls uploadMemory dispatched, with their time
  keyCalls      \* history: the generateMemoryKey calls callers made directly

\* the throttle's clock and time stamp, and the call counter
timing == <<clock, lastRequestTime, calls>>

logs == <<writeLog, keyCalls>>

vars == <<masterKey, sessionKeys, encKeys, ledger, nextHandle, entityKeys,
          nextId, txLock, nonceLock, currentNonce, okUpdates, created, granted, pc, loc, ret,
          timing, logs>>

AlwaysInitialized == TRUE

\* !!this.masterKey
isInitialized == masterKey # NoMaster /\ masterKey # Password("")

\* sessionKeys.get(keyId) is defined
hasKey(keys, keyId) == keyId \in DOMAIN keys

\* sessionKeys.set(key.keyId, key)
setKey(keys, key) ==
  [k \in (DOMAIN keys) \cup {key.keyId} |-> IF k = key.keyId THEN key ELSE keys[k]]

\* -------------------------------------------------- encryption service
\* JSON.stringify(await encrypt(content, keyId, ...)) under key material
Envelope(content, material) ==
  [kind |-> "env", inner |-> content, lock |-> material,
   len |-> content.len + ENVELOPE_OVERHEAD, trunc |-> FALSE]

\* JSON.parse(memory.content) yields an envelope
ParsesAsEnvelope(content) == content.kind = "env" /\ ~content.trunc

\* decrypt(JSON.parse(content), keyId, ...) succeeds under key material
Decrypts(content, material) == ParsesAsEnvelope(content) /\ content.lock = material

\* encryptionService.generateKeyPair(): a fresh random key in the own store
OwnKey(n) == [keyId |-> <<"key", n>>, privateKey |-> <<"random", n>>, salt |-> NoSalt]

\* ------------------------------------------------------ storage adapter
Handles == 1..(nextHandle - 1)

\* a stored value is a record, the parsed JSON object with the fields it
\* has, or [raw |-> ...] for bytes that are no JSON object
RequiredFields == {"id", "content", "permissions"}

\* retrieveMemory up to its validation: the value is there, parses, and
\* !memoryData.id, !memoryData.content, !memoryData.accessPolicy are all
\* false; an empty content string counts as missing
Retrievable(h) ==
  /\ h \in DOMAIN ledger
  /\ "raw" \notin DOMAIN ledger[h]
  /\ RequiredFields \subseteq DOMAIN ledger[h]
  /\ ledger[h].content.len > 0

General == [txt |-> "general", len |-> 7]

\* retrieveMemory, the conversion back to a MemoryEntry: type ||
\* 'conversation', category || 'general', tags || [], encrypted || false,
\* ipfsHash: entityKey
retrieveMemory(h) ==
  LET d == ledger[h]
  IN [f \in DOMAIN d \cup {"type", "category", "tags", "encrypted", "ipfsHash"} |->
        CASE f = "ipfsHash" -> h
          [] f = "type" -> IF "type" \in DOMAIN d /\ d.type # ""
                           THEN d.type ELSE "conversation"
          [] f = "category" -> IF "category" \in DOMAIN d /\ d.category.txt # ""
                               THEN d.category ELSE General
          [] f = "tags" -> IF "tags" \in DOMAIN d THEN d.tags ELSE {}
          [] f = "encrypted" -> IF "encrypted" \in DOMAIN d THEN d.encrypted ELSE FALSE
          [] OTHER -> d[f]]

\* getEntitiesOfOwner(ownerAddress): the owned entity keys, oldest first
OwnedKeys == SelectSeq([i \in Handles |-> i], LAMBDA h : h \in DOMAIN ledger)

Min(a, b) == IF a < b THEN a ELSE b

Take(s, n) == SubSeq(s, 1, Min(n, Len(s)))

Drop(s, n) == SubSeq(s, Min(n, Len(s)) + 1, Len(s))

MapRetrieve(hs) == [i \in 1..Len(hs) |-> retrieveMemory(hs[i])]

\* GolemStorageService.searchMemories(query, undefined, limit = 10)
MatchesQuery(m, q) ==
  \/ Includes(m.content, q)
  \/ \E t \in m.tags : TagIncludes(t, q)

\* down: the entity keys whose getStorageValue fails; retrieveMemory
\* returns null for them and the loop goes on
adapterSearchFrom(q, limit, down) ==
  LET parsed == MapRetrieve(SelectSeq(OwnedKeys,
                                      LAMBDA h : Retrievable(h) /\ h \notin down))
      hits == SelectSeq(parsed, LAMBDA m : MatchesQuery(m, q))
  IN Take(hits, limit)

adapterSearchUpTo(q, limit) == adapterSearchFrom(q, limit, {})

\* remoteOk: getEntitiesOfOwner answered
adapterSearchDown(q, remoteOk, down) ==
  IF remoteOk THEN adapterSearchFrom(q, DEFAULT_SEARCH_LIMIT, down) ELSE <<>>

adapterSearch(q, remoteOk) == adapterSearchDown(q, remoteOk, {})

\* bytes of JSON.stringify(memoryData)
SerializedBytes(m) ==
  m.content.len + m.category.len + SumTagLen(m.tags) + JSON_FRAME_LEN

\* contentHex.length: '0x' + two hex digits per byte
TransactionSize(m) == 2 + 2 * SerializedBytes(m)

\* the entity uploadMemory / updateMemory writes: memoryData
memoryData(m) == [m EXCEPT !.ipfsHash = 0]


\* ------------------------------------------------------- memory service
MemoryTypes == {"conversation", "learned_fact", "user_preference", "task_outcome",
                "multimedia", "workflow", "agent_share", "profile_data"}

Category(txt, len) == [txt |-> txt, len |-> len]
NoCategory == Category("", 0)

\* a MemorySearchQuery; "" / {} / 0 stand for fields left undefined
Query(text, type, category, tags, limit, offset) ==
  [query |-> text, type |-> type, category |-> category, tags |-> tags,
   limit |-> limit, offset |-> offset]

ById(memoryId) == Query(IdText(memoryId), "", NoCategory, {}, 0, 0)

\* MemoryService.searchMemoriesDirect
searchMemoriesDirectDown(q, remoteOk, down) ==
  LET memories == adapterSearchDown(q.query, remoteOk, down)
      byType == IF q.type # ""
                THEN SelectSeq(memories, LAMBDA m : m.type = q.type)
                ELSE memories
      byCat == IF q.category # NoCategory
               THEN SelectSeq(byType, LAMBDA m : m.category = q.category)
               ELSE byType
      byTags == IF q.tags # {}
                THEN SelectSeq(byCat, LAMBDA m : q.tags \cap m.tags # {})
                ELSE byCat
  IN IF q.limit # 0 THEN Take(Drop(byTags, q.offset), q.limit) ELSE byTags

\* the same with every getStorageValue call answered
searchMemoriesDirect(q, remoteOk) == searchMemoriesDirectDown(q, remoteOk, {})

\* MemoryService.tryFallbackDecryption: the first key of the encryption
\* service's store that decrypts; the looked-up key is keyManagement's
FallbackHits(content, keys) ==
  SelectSeq(encKeys, LAMBDA k : /\ hasKey(keys, k.keyId)
                                /\ Decrypts(content, keys[k.keyId].privateKey))

tryFallbackDecryption(memory, keys) ==
  IF FallbackHits(memory.content, keys) # <<>>
  THEN [memory EXCEPT !.content = memory.content.inner]
  ELSE memory

\* the decryption part of getMemory, lines 300-360: the memory it returns
\* and the session key cache it leaves
decryptMemory(memory, cache, rndSalt) ==
  IF ~memory.encrypted \/ ~isInitialized
  THEN [mem |-> memory, keys |-> cache]
  ELSE IF memory.keyId # NoKeyId /\ hasKey(cache, memory.keyId)
  THEN [mem |-> IF Decrypts(memory.content, cache[memory.keyId].privateKey)
                THEN [memory EXCEPT !.content = memory.content.inner]
                ELSE memory,
        keys |-> cache]
  ELSE LET salt == IF memory.salt # NoSalt THEN memory.salt ELSE rndSalt
           key == MemoryKey(masterKey, memory.id, salt)
           keys == setKey(cache, key)
       IN [mem |-> IF Decrypts(memory.content, key.privateKey)
                   THEN [memory EXCEPT !.content = memory.content.inner]
                   ELSE tryFallbackDecryption(memory, keys),
           keys |-> keys]

\* memories.find(m => m.id === memoryId): the matches, first one first
FindAny(memories, memoryId) == memories

findById(memories, memoryId) == SelectSeq(memories, LAMBDA m : m.id = memoryId)

\* MemoryService.getMemory: <<memory>> or <<>> (null), and the key cache
getMemoryResult(memoryId, cache, remoteOk, rndSalt) ==
  LET memories == searchMemoriesDirect(ById(memoryId), remoteOk)
      hits == findById(memories, memoryId)
  IN IF hits = <<>>
     THEN [mem |-> <<>>, keys |-> cache]
     ELSE LET d == decryptMemory(hits[1], cache, rndSalt)
          IN [mem |-> <<d.mem>>, keys |-> d.keys]


\* the zeroed facets object searchMemories returns, lines 526-539
ZeroFacets == [types |-> [t \in MemoryTypes |-> 0], categories |-> <<>>, tags |-> <<>>]

\* what a completed call handed back: the error it threw ("" for none),
\* the memories (or the one memory, or none for null), the boolean, the
\* permission list, the facets; remoteOk: no remote call of it failed
Ret(op, id, err, recs, flag, remoteOk) ==
  [op |-> op, id |-> id, err |-> err, recs |-> recs, flag |-> flag,
   remoteOk |-> remoteOk, perms |-> <<>>, totalCount |-> 0, facets |-> ZeroFacets,
   query |-> ById(id)]

IdleLoc == [op |-> "none", memory |-> <<>>, handle |-> 0]

AllIdle == \A p \in Procs : pc[p] = "idle"

\* encryptionKeyId / encryptionSalt of the metadata, from the EncryptionKey
KeyMetadataLeak(key) == [keyId |-> key.keyId, salt |-> key.privateKey]

KeyMetadata(key) == [keyId |-> key.keyId, salt |-> key.salt]

\* MemoryService.generateChecksum: a hash of the characters of the content,
\* taken here as free of collisions
generateChecksum(content) == <<"checksum", content>>

\* the MemoryEntry createMemory builds, lines 167-221
NewMemory(memoryId, content, type, category, tags, permissions, encrypted, key) ==
  LET enc == IF encrypted THEN Envelope(content, key.privateKey) ELSE content
      stored == IF enc.len > MAX_CONTENT_SIZE THEN Truncate(enc) ELSE enc
      meta == IF encrypted THEN KeyMetadata(key) ELSE [keyId |-> NoKeyId, salt |-> NoSalt]
  IN [id |-> memoryId, content |-> stored, type |-> type, category |-> category,
      tags |-> tags, encrypted |-> encrypted, permissions |-> permissions,
      version |-> 1, size |-> stored.len, checksum |-> generateChecksum(stored),
      keyId |-> meta.keyId, salt |-> meta.salt, ipfsHash |-> 0]

MetadataFields == {"version", "size", "checksum", "keyId", "salt"}

\* {...existingMemory, ...updates, metadata: {...existingMemory.metadata,
\* version: existingMemory.metadata.version + 1}}, lines 430-438
MergeUpdates(existing, updates) ==
  [f \in DOMAIN existing |->
     IF f = "version" THEN existing.version + 1
     ELSE IF f \in DOMAIN updates /\ f \notin MetadataFields THEN updates[f]
     ELSE existing[f]]

\* if (updates.content)
ContentUpdated(updates) == "content" \in DOMAIN updates /\ updates.content.len > 0

\* the updatedMemory updateMemory hands to the adapter, lines 430-449
UpdatedMemory(existing, updates) ==
  LET merged == MergeUpdates(existing, updates)
  IN IF ContentUpdated(updates)
     THEN [merged EXCEPT
             !.content = Envelope(updates.content, OwnKey(Len(encKeys) + 1).privateKey),
             !.encrypted = TRUE]
     ELSE merged

\* Array.from(new Set([...a, ...b])): first occurrences, in order
RECURSIVE Dedup(_)
Dedup(s) ==
  IF s = <<>> THEN <<>>
  ELSE LET rest == Dedup(SubSeq(s, 1, Len(s) - 1))
           x == s[Len(s)]
       IN IF \E i \in 1..Len(rest) : rest[i] = x THEN rest ELSE Append(rest, x)

\* the permission list grantPermission builds, lines 755-768
Granted(permissions, agentId, actions) ==
  IF \E i \in 1..Len(permissions) : permissions[i].agentId = agentId
  THEN LET i == CHOOSE j \in 1..Len(permissions) :
                  /\ permissions[j].agentId = agentId
                  /\ \A k \in 1..(j - 1) : permissions[k].agentId # agentId
       IN [permissions EXCEPT ![i].actions = Dedup(permissions[i].actions \o actions)]
  ELSE Append(permissions, [agentId |-> agentId, actions |-> actions])

\* the permission list revokePermission builds, line 794
Revoked(permissions, agentId) == SelectSeq(permissions, LAMBDA q : q.agentId # agentId)


\* ---------------------------------------------------------------- Init
Init ==
  /\ masterKey = NoMaster
  /\ sessionKeys = <<>>
  /\ encKeys = <<>>
  /\ ledger = <<>>
  /\ nextHandle = 1
  /\ entityKeys = {}
  /\ nextId = 1
  /\ txLock = FALSE
  /\ nonceLock = FALSE
  /\ currentNonce = <<>>
  /\ okUpdates = [i \in Ids |-> 0]
  /\ created = <<>>
  /\ granted = [i \in Ids |-> "none"]
  /\ pc = [p \in Procs |-> "idle"]
  /\ loc = [p \in Procs |-> IdleLoc]
  /\ ret = Ret("none", 0, "", <<>>, FALSE, TRUE)
  /\ clock = REQUEST_DELAY
  /\ lastRequestTime = 0
  /\ calls = 0
  /\ writeLog = <<>>
  /\ keyCalls = <<>>

\* the call of caller p ends: back to idle, with its result
Return(p, r) ==
  /\ pc' = [pc EXCEPT ![p] = "idle"]
  /\ loc' = [loc EXCEPT ![p] = IdleLoc]
  /\ ret' = r

\* ------------------------------------------------- key management calls
\* KeyManagementService.initializeWithPassword
initializeWithPassword(p, pw) ==
  /\ pc[p] = "idle"
  /\ masterKey' = Password(pw)
  /\ ret' = Ret("initializeWithPassword", 0, "", <<>>, FALSE, TRUE)
  /\ UNCHANGED <<timing, logs>>
  /\ UNCHANGED <<sessionKeys, encKeys, ledger, nextHandle, entityKeys, nextId,
                 txLock, nonceLock, currentNonce, okUpdates, created, granted, pc, loc>>

\* KeyManagementService.clearSession
clearSession(p) ==
  /\ pc[p] = "idle"
  /\ sessionKeys' = <<>>
  /\ masterKey' = NoMaster
  /\ ret' = Ret("clearSession", 0, "", <<>>, FALSE, TRUE)
  /\ UNCHANGED <<timing, logs>>
  /\ UNCHANGED <<encKeys, ledger, nextHandle, entityKeys, nextId,
                 txLock, nonceLock, currentNonce, okUpdates, created, granted, pc, loc>>

\* salt || this.generateRandomSalt()
memorySalt(salt, rndSalt) == IF salt \in {NoSalt, EmptySalt} THEN rndSalt ELSE salt

\* KeyManagementService.generateMemoryKey, called directly, up to its
\* await of deriveKey: the master key check, the salt, the key material
generateMemoryKey(p, memoryId, salt, rndSalt) ==
  /\ pc[p] = "idle"
  /\ Len(keyCalls) < MaxKeyCalls
  /\ IF ~isInitialized
     THEN /\ ret' = Ret("generateMemoryKey", memoryId, "MasterKeyNotInitialized",
                        <<>>, FALSE, TRUE)
          /\ UNCHANGED <<pc, loc, keyCalls>>
     ELSE LET key == MemoryKey(masterKey, memoryId, memorySalt(salt, rndSalt))
          IN /\ pc' = [pc EXCEPT ![p] = "deriving"]
             /\ loc' = [loc EXCEPT ![p] = [op |-> "generateMemoryKey", memory |-> <<>>,
                                           handle |-> 0, key |-> key]]
             /\ keyCalls' = Append(keyCalls, [master |-> masterKey, memoryId |-> memoryId,
                                              salt |-> salt, key |-> key])
             /\ UNCHANGED ret
  /\ UNCHANGED <<masterKey, sessionKeys, encKeys, ledger, nextHandle, entityKeys,
                 nextId, txLock, nonceLock, currentNonce, okUpdates, created, granted, timing,
                 writeLog>>

\* deriveKey settles: this.sessionKeys.set(keyId, encryptionKey), and the
\* key is returned
deriveKeyReturns(p) ==
  /\ pc[p] = "deriving"
  /\ sessionKeys' = setKey(sessionKeys, loc[p].key)
  /\ Return(p, Ret("generateMemoryKey", loc[p].key.keyId[2], "", <<>>, TRUE, TRUE))
  /\ UNCHANGED <<masterKey, encKeys, ledger, nextHandle, entityKeys, nextId, txLock,
                 nonceLock, currentNonce, okUpdates, created, granted, timing, logs>>

\* KeyManagementService.getKey: flag tells whether a key came back
getKey(p, keyId) ==
  /\ pc[p] = "idle"
  /\ ret' = Ret("getKey", keyId[2], "", <<>>, hasKey(sessionKeys, keyId), TRUE)
  /\ UNCHANGED <<masterKey, sessionKeys, encKeys, ledger, nextHandle, entityKeys,
                 nextId, txLock, nonceLock, currentNonce, okUpdates, created, granted, pc, loc,
                 timing, logs>>

\* ------------------------------------------------------- createMemory
Max(a, b) == IF a > b THEN a ELSE b

\* MemoryService.throttleRequest, called first thing by createMemory: with
\* less than REQUEST_DELAY since the last request it sleeps for the rest,
\* otherwise it stamps the time and returns
throttleRequest(p) ==
  /\ pc[p] = "idle"
  /\ calls < MaxMemories
  /\ calls' = calls + 1
  /\ IF clock - lastRequestTime < REQUEST_DELAY
     THEN /\ pc' = [pc EXCEPT ![p] = "sleeping"]
          /\ loc' = [loc EXCEPT ![p] =
                       [op |-> "throttleRequest", memory |-> <<>>, handle |-> 0,
                        ticket |-> calls + 1,
                        wakeAt |-> clock + (REQUEST_DELAY - (clock - lastRequestTime))]]
          /\ UNCHANGED lastRequestTime
     ELSE /\ pc' = [pc EXCEPT ![p] = "throttled"]
          /\ loc' = [loc EXCEPT ![p] =
                       [op |-> "throttleRequest", memory |-> <<>>, handle |-> 0,
                        ticket |-> calls + 1, wakeAt |-> clock]]
          /\ lastRequestTime' = clock
  /\ UNCHANGED <<masterKey, sessionKeys, encKeys, ledger, nextHandle, entityKeys,
                 nextId, txLock, nonceLock, currentNonce, okUpdates, created, granted, ret,
                 clock, logs>>

\* the setTimeout of throttleRequest fires, no earlier than after the
\* delay: this.lastRequestTime = Date.now()
sleepEnds(p) ==
  /\ pc[p] = "sleeping"
  /\ clock' = Max(clock, loc[p].wakeAt)
  /\ lastRequestTime' = clock'
  /\ pc' = [pc EXCEPT ![p] = "throttled"]
  /\ UNCHANGED <<masterKey, sessionKeys, encKeys, ledger, nextHandle, entityKeys,
                 nextId, txLock, nonceLock, currentNonce, okUpdates, created, granted, loc, ret,
                 calls, logs>>

\* time passes: Date.now() moves on between two steps
Tick ==
  /\ clock < MaxTime * REQUEST_DELAY
  /\ clock' = clock + TickLength
  /\ UNCHANGED <<masterKey, sessionKeys, encKeys, ledger, nextHandle, entityKeys,
                 nextId, txLock, nonceLock, currentNonce, okUpdates, created, granted, pc, loc, ret,
                 lastRequestTime, calls, logs>>

\* MemoryService.createMemory after throttleRequest, up to the call of
\* uploadMemory: uuid, key derivation, encryption, truncation, the
\* MemoryEntry
createMemory(p, content, type, category, tags, permissions, encrypted, rndSalt) ==
  /\ pc[p] = "throttled"
  /\ nextId <= MaxMemories
  /\ nextId' = nextId + 1
  /\ IF encrypted /\ ~isInitialized
     THEN /\ Return(p, Ret("createMemory", nextId, "KeyManagementNotInitialized",
                           <<>>, FALSE, TRUE))
          /\ UNCHANGED sessionKeys
     ELSE LET key == MemoryKey(masterKey, nextId, rndSalt)
              memory == NewMemory(nextId, content, type, category, tags,
                                  permissions, encrypted, key)
          IN /\ sessionKeys' = IF encrypted THEN setKey(sessionKeys, key) ELSE sessionKeys
             /\ pc' = [pc EXCEPT ![p] = "acquireTxLock"]
             /\ loc' = [loc EXCEPT ![p] = [op |-> "createMemory", memory |-> <<memory>>,
                                           handle |-> 0, plain |-> content,
                                           ticket |-> loc[p].ticket]]
             /\ UNCHANGED ret
  /\ UNCHANGED <<timing, logs>>
  /\ UNCHANGED <<masterKey, encKeys, ledger, nextHandle, entityKeys,
                 txLock, nonceLock, currentNonce, okUpdates, created, granted>>

\* the flag taken without the wait for it to be free
acquireTxLockNoWait(p) ==
  /\ pc[p] = "acquireTxLock"
  /\ txLock' = TRUE
  /\ pc' = [pc EXCEPT ![p] = "testRpc"]
  /\ UNCHANGED <<timing, logs>>
  /\ UNCHANGED <<masterKey, sessionKeys, encKeys, ledger, nextHandle, entityKeys,
                 nextId, nonceLock, currentNonce, okUpdates, created, granted, loc, ret>>

\* GolemStorageService.acquireTxLock: polls until the flag is free
acquireTxLock(p) ==
  /\ pc[p] = "acquireTxLock"
  /\ ~txLock
  /\ txLock' = TRUE
  /\ pc' = [pc EXCEPT ![p] = "testRpc"]
  /\ UNCHANGED <<timing, logs>>
  /\ UNCHANGED <<masterKey, sessionKeys, encKeys, ledger, nextHandle, entityKeys,
                 nextId, nonceLock, currentNonce, okUpdates, created, granted, loc, ret>>

\* GolemStorageService.testRpcConnectionWithRetry: returns whether or not
\* the node answered
testRpcConnectionWithRetry(p) ==
  /\ pc[p] = "testRpc"
  /\ pc' = [pc EXCEPT ![p] = "nonce"]
  /\ UNCHANGED <<timing, logs>>
  /\ UNCHANGED <<masterKey, sessionKeys, encKeys, ledger, nextHandle, entityKeys,
                 nextId, txLock, nonceLock, currentNonce, okUpdates, created, granted, loc, ret>>

\* GolemStorageService.getCurrentNonce: the pending transaction count the
\* node reports, <<n>>, or 0 when the query fails, <<>>
getCurrentNonce(response) == IF response = <<>> THEN 0 ELSE response[1]

\* the same adopting the node's count whatever the stored nonce is
waitForNonceAvailabilityAdopts(p, response) ==
  /\ pc[p] = "nonce"
  /\ ~nonceLock
  /\ nonceLock' = TRUE
  /\ currentNonce' = <<getCurrentNonce(response) + 1>>
  /\ pc' = [pc EXCEPT ![p] = "submit"]
  /\ UNCHANGED <<timing, logs>>
  /\ UNCHANGED <<masterKey, sessionKeys, encKeys, ledger, nextHandle, entityKeys,
                 nextId, txLock, okUpdates, created, granted, loc, ret>>

\* GolemStorageService.waitForNonceAvailability: polls until the nonce flag
\* is free, takes it, queries the node, moves the stored nonce up to the
\* node's count if it is behind or not set, increments it, and leaves the
\* flag to the timer
waitForNonceAvailability(p, response) ==
  /\ pc[p] = "nonce"
  /\ ~nonceLock
  /\ nonceLock' = TRUE
  /\ LET remote == getCurrentNonce(response)
         stored == IF currentNonce # <<>> /\ currentNonce[1] < remote THEN remote
                   ELSE IF currentNonce = <<>> THEN remote
                   ELSE currentNonce[1]
     IN currentNonce' = <<stored + 1>>
  /\ pc' = [pc EXCEPT ![p] = "submit"]
  /\ UNCHANGED <<timing, logs>>
  /\ UNCHANGED <<masterKey, sessionKeys, encKeys, ledger, nextHandle, entityKeys,
                 nextId, txLock, okUpdates, created, granted, loc, ret>>

\* the setTimeout of waitForNonceAvailability's finally block
nonceLockTimeout ==
  /\ nonceLock
  /\ nonceLock' = FALSE
  /\ UNCHANGED <<timing, logs>>
  /\ UNCHANGED <<masterKey, sessionKeys, encKeys, ledger, nextHandle, entityKeys,
                 nextId, txLock, currentNonce, okUpdates, created, granted, pc, loc,
                 ret>>

UploadFailsKeepsLock(p, err, remoteOk) ==
  /\ UNCHANGED txLock
  /\ Return(p, Ret("createMemory", loc[p].memory[1].id, err, <<>>, FALSE, remoteOk))

\* uploadMemory throws: its finally releases the lock, createMemory's catch
\* rethrows 'Memory creation failed'
UploadFails(p, err, remoteOk) ==
  /\ txLock' = FALSE
  /\ Return(p, Ret("createMemory", loc[p].memory[1].id, err, <<>>, FALSE, remoteOk))

\* the same without the finally block on the way out
UploadReturnsKeepsLock(p, h) ==
  /\ entityKeys' = entityKeys \cup {h}
  /\ UNCHANGED txLock
  /\ created' = [i \in (DOMAIN created) \cup {loc[p].memory[1].id} |->
                   IF i = loc[p].memory[1].id THEN loc[p].plain ELSE created[i]]
  /\ Return(p, Ret("createMemory", loc[p].memory[1].id, "",
                   <<[loc[p].memory[1] EXCEPT !.ipfsHash = h]>>, TRUE, TRUE))

\* uploadMemory returns: the handle is tracked, the lock released, and
\* createMemory returns the memory with its entity key
UploadReturns(p, h) ==
  /\ entityKeys' = entityKeys \cup {h}
  /\ txLock' = FALSE
  /\ created' = [i \in (DOMAIN created) \cup {loc[p].memory[1].id} |->
                   IF i = loc[p].memory[1].id THEN loc[p].plain ELSE created[i]]
  /\ Return(p, Ret("createMemory", loc[p].memory[1].id, "",
                   <<[loc[p].memory[1] EXCEPT !.ipfsHash = h]>>, TRUE, TRUE))

\* uploadMemory: serialization, the MAX_TX_SIZE check, sendTransaction
sendTransaction(p) ==
  /\ pc[p] = "submit"
  /\ IF TransactionSize(loc[p].memory[1]) > MAX_TX_SIZE
     THEN /\ UploadFails(p, "TransactionTooLarge", TRUE)
          /\ UNCHANGED writeLog
     ELSE /\ pc' = [pc EXCEPT ![p] = "sending"]
          /\ writeLog' = Append(writeLog, [call |-> "sendTransaction",
                                           ticket |-> loc[p].ticket, at |-> clock])
          /\ UNCHANGED <<txLock, loc, ret>>
  /\ UNCHANGED <<timing, keyCalls>>
  /\ UNCHANGED <<masterKey, sessionKeys, encKeys, ledger, nextHandle, entityKeys,
                 nextId, nonceLock, currentNonce, okUpdates, created, granted>>

\* the same with a missing transaction hash treated as a failure
sendResponseNeedsHash(p, outcome) ==
  /\ pc[p] = "sending"
  /\ IF outcome = "fail"
     THEN /\ UploadFails(p, "StorageFailure", FALSE)
          /\ UNCHANGED <<ledger, nextHandle, entityKeys, created, writeLog>>
     ELSE /\ ledger' = [h \in (DOMAIN ledger) \cup {nextHandle} |->
                          IF h = nextHandle THEN memoryData(loc[p].memory[1])
                          ELSE ledger[h]]
          /\ nextHandle' = nextHandle + 1
          /\ IF outcome = "hash"
             THEN /\ pc' = [pc EXCEPT ![p] = "annotating"]
                  /\ loc' = [loc EXCEPT ![p].handle = nextHandle]
                  /\ writeLog' = Append(writeLog, [call |-> "updateEntities",
                                                   ticket |-> loc[p].ticket,
                                                   at |-> clock])
                  /\ UNCHANGED <<txLock, entityKeys, created, ret>>
             ELSE /\ UploadFails(p, "StorageFailure", FALSE)
                  /\ UNCHANGED <<entityKeys, created, writeLog>>
  /\ UNCHANGED <<timing, keyCalls>>
  /\ UNCHANGED <<masterKey, sessionKeys, encKeys, nextId, nonceLock, currentNonce, okUpdates,
                 granted>>

\* sendTransaction settles: it failed, or the entity exists, with or
\* without the transaction hash having been captured
sendResponse(p, outcome) ==
  /\ pc[p] = "sending"
  /\ IF outcome = "fail"
     THEN /\ UploadFails(p, "StorageFailure", FALSE)
          /\ UNCHANGED <<ledger, nextHandle, entityKeys, created, writeLog>>
     ELSE /\ ledger' = [h \in (DOMAIN ledger) \cup {nextHandle} |->
                          IF h = nextHandle THEN memoryData(loc[p].memory[1])
                          ELSE ledger[h]]
          /\ nextHandle' = nextHandle + 1
          /\ IF outcome = "hash"
             THEN /\ pc' = [pc EXCEPT ![p] = "annotating"]
                  /\ loc' = [loc EXCEPT ![p].handle = nextHandle]
                  /\ writeLog' = Append(writeLog, [call |-> "updateEntities",
                                                   ticket |-> loc[p].ticket,
                                                   at |-> clock])
                  /\ UNCHANGED <<txLock, entityKeys, created, ret>>
             ELSE /\ UploadReturns(p, nextHandle)
                  /\ UNCHANGED writeLog
  /\ UNCHANGED <<timing, keyCalls>>
  /\ UNCHANGED <<masterKey, sessionKeys, encKeys, nextId, nonceLock, currentNonce, okUpdates,
                 granted>>

\* the same call with its failure thrown on to uploadMemory's catch
annotateResponseThrows(p, ok) ==
  /\ pc[p] = "annotating"
  /\ IF ok
     THEN /\ UploadReturns(p, loc[p].handle)
          /\ UNCHANGED ledger
     ELSE /\ UploadFails(p, "StorageFailure", FALSE)
          /\ UNCHANGED <<ledger, entityKeys, created>>
  /\ UNCHANGED <<timing, logs>>
  /\ UNCHANGED <<masterKey, sessionKeys, encKeys, nextHandle, nextId, nonceLock, currentNonce,
                 okUpdates, granted>>

\* the updateEntities call that adds the transaction hash settles; its
\* failure is caught, lines 1388-1424
annotateResponse(p, ok) ==
  /\ pc[p] = "annotating"
  /\ ledger' = IF ok /\ loc[p].handle \in DOMAIN ledger
               THEN [ledger EXCEPT ![loc[p].handle] = memoryData(loc[p].memory[1])]
               ELSE ledger
  /\ UploadReturns(p, loc[p].handle)
  /\ UNCHANGED <<timing, logs>>
  /\ UNCHANGED <<masterKey, sessionKeys, encKeys, nextHandle, nextId, nonceLock, currentNonce,
                 okUpdates, granted>>


\* ------------------------------------------------------- updateMemory
\* MemoryService.updateMemory up to the call of updateEntities: getMemory,
\* the merge, the re-encryption; then the adapter's updateMemory, which
\* takes no lock.  op is the public call this update serves.
StartUpdate(p, op, memoryId, updates, cache, remoteOk, rndSalt) ==
  LET r == getMemoryResult(memoryId, cache, remoteOk, rndSalt)
  IN /\ sessionKeys' = r.keys
     /\ IF r.mem = <<>>
        THEN /\ Return(p, Ret(op, memoryId,
                              IF op = "updateMemory" THEN "Memory not found" ELSE "",
                              <<>>, FALSE, remoteOk))
             /\ UNCHANGED encKeys
        ELSE /\ r.mem[1].version < MaxVersion
             /\ ContentUpdated(updates) => Len(encKeys) < MaxOwnKeys
             /\ encKeys' = IF ContentUpdated(updates)
                           THEN Append(encKeys, OwnKey(Len(encKeys) + 1))
                           ELSE encKeys
             /\ pc' = [pc EXCEPT ![p] = "updating"]
             /\ loc' = [loc EXCEPT ![p] =
                          [op |-> op, memory |-> <<UpdatedMemory(r.mem[1], updates)>>,
                           handle |-> r.mem[1].ipfsHash,
                           contentUpdated |-> ContentUpdated(updates)]]
             /\ UNCHANGED ret

updateMemory(p, memoryId, updates, remoteOk, rndSalt) ==
  /\ pc[p] = "idle"
  /\ StartUpdate(p, "updateMemory", memoryId, updates, sessionKeys, remoteOk, rndSalt)
  /\ UNCHANGED <<timing, logs>>
  /\ UNCHANGED <<masterKey, ledger, nextHandle, entityKeys, nextId, txLock,
                 nonceLock, currentNonce, okUpdates, created, granted>>

\* the same storing the update as a new entity next to the old one
updateResponseAppends(p, ok) ==
  /\ pc[p] = "updating"
  /\ LET m == loc[p].memory[1]
         h == loc[p].handle
         op == loc[p].op
     IN IF ok /\ h \in DOMAIN ledger
        THEN /\ ledger' = [k \in (DOMAIN ledger) \cup {nextHandle} |->
                             IF k = nextHandle THEN memoryData(m) ELSE ledger[k]]
             /\ nextHandle' = nextHandle + 1
             /\ okUpdates' = [okUpdates EXCEPT ![m.id] = @ + 1]
             /\ granted' = IF op = "grantPermission"
                           THEN [granted EXCEPT ![m.id] = "granted"]
                           ELSE IF op = "revokePermission"
                           THEN [granted EXCEPT ![m.id] = "revoked"]
                           ELSE granted
             /\ Return(p, Ret(op, m.id, "",
                              IF op = "updateMemory"
                              THEN <<[m EXCEPT !.ipfsHash = nextHandle]>>
                              ELSE <<>>,
                              TRUE, TRUE))
        ELSE /\ Return(p, Ret(op, m.id,
                              IF op = "updateMemory" THEN "StorageFailure" ELSE "",
                              <<>>, FALSE, FALSE))
             /\ UNCHANGED <<ledger, nextHandle, okUpdates, granted>>
  /\ UNCHANGED <<timing, logs>>
  /\ UNCHANGED <<masterKey, sessionKeys, encKeys, entityKeys, nextId,
                 txLock, nonceLock, currentNonce, created>>

\* client.updateEntities settles: the entity at the handle now holds the
\* new memoryData and the same entity key comes back, or the call failed
updateResponse(p, ok) ==
  /\ pc[p] = "updating"
  /\ LET m == loc[p].memory[1]
         h == loc[p].handle
         op == loc[p].op
     IN IF ok /\ h \in DOMAIN ledger
        THEN /\ ledger' = [ledger EXCEPT ![h] = memoryData(m)]
             /\ okUpdates' = [okUpdates EXCEPT ![m.id] = @ + 1]
             /\ granted' = IF op = "grantPermission"
                           THEN [granted EXCEPT ![m.id] = "granted"]
                           ELSE IF op = "revokePermission"
                           THEN [granted EXCEPT ![m.id] = "revoked"]
                           ELSE granted
             /\ Return(p, Ret(op, m.id, "",
                              IF op = "updateMemory" THEN <<[m EXCEPT !.ipfsHash = h]>>
                              ELSE <<>>,
                              TRUE, TRUE))
        ELSE /\ Return(p, Ret(op, m.id,
                              IF op = "updateMemory" THEN "StorageFailure" ELSE "",
                              <<>>, FALSE, FALSE))
             /\ UNCHANGED <<ledger, okUpdates, granted>>
  /\ UNCHANGED <<timing, logs>>
  /\ UNCHANGED <<masterKey, sessionKeys, encKeys, nextHandle, entityKeys, nextId,
                 txLock, nonceLock, currentNonce, created>>

\* MemoryService.grantPermission: getMemory, the new permission list, then
\* updateMemory(memoryId, memory) with the whole memory as the updates
grantPermission(p, memoryId, agentId, actions, remoteOk, rndSalt, rndSalt2) ==
  /\ pc[p] = "idle"
  /\ LET r == getMemoryResult(memoryId, sessionKeys, remoteOk, rndSalt)
     IN IF r.mem = <<>>
        THEN /\ Return(p, Ret("grantPermission", memoryId, "", <<>>, FALSE, remoteOk))
             /\ sessionKeys' = r.keys
             /\ UNCHANGED encKeys
        ELSE StartUpdate(p, "grantPermission", memoryId,
                         [r.mem[1] EXCEPT
                            !.permissions = Granted(r.mem[1].permissions, agentId, actions)],
                         r.keys, remoteOk, rndSalt2)
  /\ UNCHANGED <<timing, logs>>
  /\ UNCHANGED <<masterKey, ledger, nextHandle, entityKeys, nextId, txLock,
                 nonceLock, currentNonce, okUpdates, created, granted>>

\* MemoryService.revokePermission
revokePermission(p, memoryId, agentId, remoteOk, rndSalt, rndSalt2) ==
  /\ pc[p] = "idle"
  /\ LET r == getMemoryResult(memoryId, sessionKeys, remoteOk, rndSalt)
     IN IF r.mem = <<>>
        THEN /\ Return(p, Ret("revokePermission", memoryId, "", <<>>, FALSE, remoteOk))
             /\ sessionKeys' = r.keys
             /\ UNCHANGED encKeys
        ELSE StartUpdate(p, "revokePermission", memoryId,
                         [r.mem[1] EXCEPT
                            !.permissions = Revoked(r.mem[1].permissions, agentId)],
                         r.keys, remoteOk, rndSalt2)
  /\ UNCHANGED <<timing, logs>>
  /\ UNCHANGED <<masterKey, ledger, nextHandle, entityKeys, nextId, txLock,
                 nonceLock, currentNonce, okUpdates, created, granted>>

\* --------------------------------------------------------- read calls
\* MemoryService.getMemory
getMemory(p, memoryId, remoteOk, rndSalt) ==
  /\ pc[p] = "idle"
  /\ LET r == getMemoryResult(memoryId, sessionKeys, remoteOk, rndSalt)
     IN /\ sessionKeys' = r.keys
        /\ ret' = Ret("getMemory", memoryId, "", r.mem, r.mem # <<>>, remoteOk)
  /\ UNCHANGED <<timing, logs>>
  /\ UNCHANGED <<masterKey, encKeys, ledger, nextHandle, entityKeys, nextId,
                 txLock, nonceLock, currentNonce, okUpdates, created, granted, pc, loc>>

\* MemoryService.getMemoryPermissions
getMemoryPermissions(p, memoryId, remoteOk, rndSalt) ==
  /\ pc[p] = "idle"
  /\ LET r == getMemoryResult(memoryId, sessionKeys, remoteOk, rndSalt)
     IN /\ sessionKeys' = r.keys
        /\ ret' = [Ret("getMemoryPermissions", memoryId, "", <<>>, r.mem # <<>>, remoteOk)
                     EXCEPT !.perms = IF r.mem = <<>> THEN <<>> ELSE r.mem[1].permissions]
  /\ UNCHANGED <<timing, logs>>
  /\ UNCHANGED <<masterKey, encKeys, ledger, nextHandle, entityKeys, nextId,
                 txLock, nonceLock, currentNonce, okUpdates, created, granted, pc, loc>>

\* MemoryService.deleteMemory with GolemStorageService.deleteMemory
deleteMemory(p, memoryId, remoteOk, deleteOk) ==
  /\ pc[p] = "idle"
  /\ LET memories == searchMemoriesDirect(ById(memoryId), remoteOk)
         hits == findById(memories, memoryId)
     IN IF hits = <<>>
        THEN /\ ret' = Ret("deleteMemory", memoryId, "", <<>>, FALSE, remoteOk)
             /\ UNCHANGED <<ledger, entityKeys>>
        ELSE /\ entityKeys' = entityKeys \ {hits[1].ipfsHash}
             /\ ledger' = IF deleteOk
                          THEN [h \in (DOMAIN ledger) \ {hits[1].ipfsHash} |-> ledger[h]]
                          ELSE ledger
             /\ ret' = Ret("deleteMemory", memoryId, "", <<>>, deleteOk, deleteOk)
  /\ UNCHANGED <<timing, logs>>
  /\ UNCHANGED <<masterKey, sessionKeys, encKeys, nextHandle, nextId, txLock,
                 nonceLock, currentNonce, okUpdates, created, granted, pc, loc>>

\* category.toLowerCase().includes(query.category.toLowerCase())
CategoryIncludes(c, q) == q.txt = "" \/ c.txt = q.txt

\* MemoryService.searchMemories; the call counts as remoteOk when
\* getEntitiesOfOwner and every getStorageValue answered
searchMemories(p, q, remoteOk, down) ==
  /\ pc[p] = "idle"
  /\ LET memories == searchMemoriesDirectDown(q, remoteOk, down)
         byType == IF q.type # ""
                   THEN SelectSeq(memories, LAMBDA m : m.type = q.type)
                   ELSE memories
         byCat == IF q.category # NoCategory
                  THEN SelectSeq(byType, LAMBDA m : CategoryIncludes(m.category, q.category))
                  ELSE byType
         byTags == IF q.tags # {}
                   THEN SelectSeq(byCat, LAMBDA m : q.tags \cap m.tags # {})
                   ELSE byCat
     IN ret' = [Ret("searchMemories", 0, "", byTags, FALSE,
                    remoteOk /\ down \cap DOMAIN ledger = {})
                  EXCEPT !.totalCount = Len(byTags), !.facets = ZeroFacets, !.query = q]
  /\ UNCHANGED <<timing, logs>>
  /\ UNCHANGED <<masterKey, sessionKeys, encKeys, ledger, nextHandle, entityKeys,
                 nextId, txLock, nonceLock, currentNonce, okUpdates, created, granted, pc, loc>>


\* ------------------------------------------------------------- inputs
\* caller texts: a short one, a short one that quotes the id of the first
\* record, and one beyond the content ceiling
Contents == {Plain("hello world", {}, ShortLen),
             Plain("note", {1}, ShortLen),
             Plain("essay", {}, LongLen)}

ShortContents == {c \in Contents : c.len = ShortLen}

Work == Category("work", 4)
Home == Category("home", 4)
Bulk == Category("bulk", HugeLen)

\* no tags, or one tag that quotes the id the record is about to get
TagSets(id) == {{}, {Word("ref", {id})}}

Salts == {Salt(1)}

Updates == {[category |-> Home],
            [content |-> Plain("rewritten", {}, ShortLen)]}

AgentX == "agentX"
ReadWrite == <<"read", "write">>

\* the nonce query on an account with nothing pending: it fails or
\* reports 0; no later step reads the stored nonce
IdleNode == {<<>>, <<0>>}

\* the steps of GolemStorageService.uploadMemory, for caller p
Upload(p) ==
  \/ acquireTxLock(p)
  \/ testRpcConnectionWithRetry(p)
  \/ \E response \in IdleNode : waitForNonceAvailability(p, response)
  \/ sendTransaction(p)
  \/ \E outcome \in {"hash", "nohash", "fail"} : sendResponse(p, outcome)
  \/ \E ok \in BOOLEAN : annotateResponse(p, ok)

\* ------------------- Spec: one caller; create, read and delete, with keys
Next ==
  \/ initializeWithPassword(1, "pw")
  \/ clearSession(1)
  \/ \E content \in Contents, category \in {Work, Bulk},
        tags \in TagSets(nextId), encrypted \in BOOLEAN, rndSalt \in Salts :
       createMemory(1, content, "conversation", category, tags, <<>>, encrypted, rndSalt)
  \/ throttleRequest(1)
  \/ sleepEnds(1)
  \/ Upload(1)
  \/ nonceLockTimeout
  \/ \E id \in Ids, remoteOk \in BOOLEAN, rndSalt \in Salts :
       getMemory(1, id, remoteOk, rndSalt)
  \/ \E id \in Ids, remoteOk \in BOOLEAN, deleteOk \in BOOLEAN :
       deleteMemory(1, id, remoteOk, deleteOk)

Spec == Init /\ [][Next]_vars

\* the records of the update and permission specifications: one that
\* getMemory finds by a tag, one whose text quotes the first id
Drafts(id) == {[content |-> Plain("hello world", {}, ShortLen), tags |-> {Word("ref", {id})}],
               [content |-> Plain("note", {1}, ShortLen), tags |-> {}]}

\* ---------------------------- SpecUpdate: one caller; create and update
NextUpdate ==
  \/ initializeWithPassword(1, "pw")
  \/ \E d \in Drafts(nextId), encrypted \in BOOLEAN, rndSalt \in Salts :
       createMemory(1, d.content, "conversation", Work, d.tags, <<>>, encrypted, rndSalt)
  \/ throttleRequest(1)
  \/ sleepEnds(1)
  \/ Upload(1)
  \/ nonceLockTimeout
  \/ \E id \in Ids, updates \in Updates, remoteOk \in BOOLEAN, rndSalt \in Salts :
       updateMemory(1, id, updates, remoteOk, rndSalt)
  \/ \E ok \in BOOLEAN : updateResponse(1, ok)

SpecUpdate == Init /\ [][NextUpdate]_vars

\* ------------------- SpecPerm: one caller; create, grant, revoke, list
NextPerm ==
  \/ initializeWithPassword(1, "pw")
  \/ \E d \in Drafts(nextId), encrypted \in BOOLEAN, rndSalt \in Salts :
       createMemory(1, d.content, "conversation", Work, d.tags, <<>>, encrypted, rndSalt)
  \/ throttleRequest(1)
  \/ sleepEnds(1)
  \/ Upload(1)
  \/ nonceLockTimeout
  \/ \E id \in Ids, remoteOk \in BOOLEAN, rndSalt \in Salts :
       grantPermission(1, id, AgentX, ReadWrite, remoteOk, rndSalt, rndSalt)
  \/ \E id \in Ids, remoteOk \in BOOLEAN, rndSalt \in Salts :
       revokePermission(1, id, AgentX, remoteOk, rndSalt, rndSalt)
  \/ \E ok \in BOOLEAN : updateResponse(1, ok)
  \/ \E id \in Ids, remoteOk \in BOOLEAN, rndSalt \in Salts :
       getMemoryPermissions(1, id, remoteOk, rndSalt)

SpecPerm == Init /\ [][NextPerm]_vars

\* ------------------------- SpecSearch: one caller; create and search
SearchTypes == {"conversation", "learned_fact"}

Queries == {Query(text, type, NoCategory, {}, 0, 0) :
              text \in {EmptyQuery, Word("hello world", {})},
              type \in SearchTypes \cup {""}}

NextSearch ==
  \/ \E content \in ShortContents, type \in SearchTypes, tags \in TagSets(nextId) :
       createMemory(1, content, type, Work, tags, <<>>, FALSE, Salt(1))
  \/ throttleRequest(1)
  \/ sleepEnds(1)
  \/ Upload(1)
  \/ nonceLockTimeout
  \/ \E q \in Queries, remoteOk \in BOOLEAN, down \in SUBSET (DOMAIN ledger) :
       searchMemories(1, q, remoteOk, down)

SpecSearch == Init /\ [][NextSearch]_vars

\* ids of createMemory calls that have not returned: no caller knows them
Pending == {loc[p].memory[1].id : p \in {q \in Procs : loc[q].op = "createMemory"}}

\* ------------------ SpecConc: MaxProcs callers; creates and updates
NextConc ==
  \/ \E p \in Procs, tags \in TagSets(nextId) :
       createMemory(p, Plain("hello world", {}, ShortLen), "conversation", Work, tags,
                    <<>>, FALSE, Salt(1))
  \/ \E p \in Procs : throttleRequest(p)
  \/ \E p \in Procs : sleepEnds(p)
  \/ \E p \in Procs : Upload(p)
  \/ nonceLockTimeout
  \/ \E p \in Procs, id \in Ids \ Pending, remoteOk \in BOOLEAN :
       updateMemory(p, id, [category |-> Home], remoteOk, Salt(1))
  \/ \E p \in Procs, ok \in BOOLEAN : updateResponse(p, ok)

SpecConc == Init /\ [][NextConc]_vars

\* -------- SpecThrottle: MaxProcs callers of createMemory, and the clock
NextThrottle ==
  \/ \E p \in Procs : throttleRequest(p)
  \/ \E p \in Procs : sleepEnds(p)
  \/ \E p \in Procs :
       createMemory(p, Plain("hello world", {}, ShortLen), "conversation", Work, {},
                    <<>>, FALSE, Salt(1))
  \/ \E p \in Procs : Upload(p)
  \/ nonceLockTimeout
  \/ Tick

SpecThrottle == Init /\ [][NextThrottle]_vars

\* every timer fires, every poll loop looks again, every remote call
\* settles, and a caller that is not waiting runs on
ThrottleFairness ==
  /\ \A p \in Procs :
       /\ WF_vars(sleepEnds(p))
       /\ WF_vars(createMemory(p, Plain("hello world", {}, ShortLen), "conversation",
                                Work, {}, <<>>, FALSE, Salt(1)))
       /\ WF_vars(Upload(p))
  /\ WF_vars(nonceLockTimeout)

SpecThrottleFair == SpecThrottle /\ ThrottleFairness

\* the same for a remote node that may stay silent: the timers, the poll
\* loops and the calls that carry AbortSignal.timeout go on, while
\* sendTransaction and updateEntities settle only if the node answers
SilentRemoteFairness ==
  /\ \A p \in Procs :
       /\ WF_vars(sleepEnds(p))
       /\ WF_vars(createMemory(p, Plain("hello world", {}, ShortLen), "conversation",
                                Work, {}, <<>>, FALSE, Salt(1)))
       /\ WF_vars(acquireTxLock(p))
       /\ WF_vars(testRpcConnectionWithRetry(p))
       /\ WF_vars(\E response \in IdleNode : waitForNonceAvailability(p, response))
       /\ WF_vars(sendTransaction(p))
  /\ WF_vars(nonceLockTimeout)

SpecSilentRemote == SpecThrottle /\ SilentRemoteFairness

\* ------ SpecRetry: the uploads of SpecThrottle with the connectivity test
\* taken attempt by attempt
maxAttempts == 2
RETRY_BASE_DELAY == 1000

\* const delay = 1000 * Math.pow(2, attempts - 1)
BackoffDelay(attempts) == RETRY_BASE_DELAY * 2 ^ (attempts - 1)

\* the attempts counter of one call of testRpcConnectionWithRetry
Attempts(p) == IF "attempts" \in DOMAIN loc[p] THEN loc[p].attempts ELSE 0

\* the same loop allowing one more attempt
testRpcConnectionOnceMore(p, ok) ==
  /\ pc[p] = "testRpc"
  /\ LET attempts == IF ok THEN Attempts(p) ELSE Attempts(p) + 1
         made == IF "rpcCalls" \in DOMAIN loc[p] THEN loc[p].rpcCalls + 1 ELSE 1
         retry == ~ok /\ attempts < maxAttempts + 1
     IN /\ pc' = [pc EXCEPT ![p] = IF retry THEN "backoff" ELSE "nonce"]
        /\ loc' = [loc EXCEPT ![p] =
                     [op |-> loc[p].op, memory |-> loc[p].memory,
                      handle |-> loc[p].handle, plain |-> loc[p].plain,
                      ticket |-> loc[p].ticket, attempts |-> attempts,
                      rpcCalls |-> made, rpcFailed |-> ~ok, attemptAt |-> clock,
                      wakeAt |-> IF retry THEN clock + BackoffDelay(attempts)
                                 ELSE clock]]
  /\ UNCHANGED <<timing, logs>>
  /\ UNCHANGED <<masterKey, sessionKeys, encKeys, ledger, nextHandle, entityKeys,
                 nextId, txLock, nonceLock, currentNonce, okUpdates, created, granted, ret>>

\* one pass of the loop of testRpcConnectionWithRetry: testRpcConnection
\* answers or throws (at the latest when its 30 s AbortSignal fires); a
\* failure counts as an attempt, and the loop either gives up, returning
\* normally, or starts the backoff timer
testRpcConnection(p, ok) ==
  /\ pc[p] = "testRpc"
  /\ LET attempts == IF ok THEN Attempts(p) ELSE Attempts(p) + 1
         made == IF "rpcCalls" \in DOMAIN loc[p] THEN loc[p].rpcCalls + 1 ELSE 1
         retry == ~ok /\ attempts < maxAttempts
     IN /\ pc' = [pc EXCEPT ![p] = IF retry THEN "backoff" ELSE "nonce"]
        /\ loc' = [loc EXCEPT ![p] =
                     [op |-> loc[p].op, memory |-> loc[p].memory,
                      handle |-> loc[p].handle, plain |-> loc[p].plain,
                      ticket |-> loc[p].ticket, attempts |-> attempts,
                      rpcCalls |-> made, rpcFailed |-> ~ok, attemptAt |-> clock,
                      wakeAt |-> IF retry THEN clock + BackoffDelay(attempts)
                                 ELSE clock]]
  /\ UNCHANGED <<timing, logs>>
  /\ UNCHANGED <<masterKey, sessionKeys, encKeys, ledger, nextHandle, entityKeys,
                 nextId, txLock, nonceLock, currentNonce, okUpdates, created, granted, ret>>

\* the backoff timer fires, no earlier than after the delay
backoffEnds(p) ==
  /\ pc[p] = "backoff"
  /\ clock' = Max(clock, loc[p].wakeAt)
  /\ pc' = [pc EXCEPT ![p] = "testRpc"]
  /\ UNCHANGED <<masterKey, sessionKeys, encKeys, ledger, nextHandle, entityKeys,
                 nextId, txLock, nonceLock, currentNonce, okUpdates, created, granted, loc, ret,
                 lastRequestTime, calls, logs>>

NextRetry ==
  \/ \E p \in Procs : throttleRequest(p)
  \/ \E p \in Procs : sleepEnds(p)
  \/ \E p \in Procs :
       createMemory(p, Plain("hello world", {}, ShortLen), "conversation", Work, {},
                    <<>>, FALSE, Salt(1))
  \/ \E p \in Procs : acquireTxLock(p)
  \/ \E p \in Procs, ok \in BOOLEAN : testRpcConnection(p, ok)
  \/ \E p \in Procs : backoffEnds(p)
  \/ \E p \in Procs, response \in IdleNode : waitForNonceAvailability(p, response)
  \/ \E p \in Procs : sendTransaction(p)
  \/ \E p \in Procs, outcome \in {"hash", "nohash", "fail"} : sendResponse(p, outcome)
  \/ \E p \in Procs, ok \in BOOLEAN : annotateResponse(p, ok)
  \/ nonceLockTimeout
  \/ Tick

\* the fetch of testRpcConnection settles, by its AbortSignal at the
\* latest, and the backoff timer fires
SpecRetry ==
  /\ Init
  /\ [][NextRetry]_vars
  /\ \A p \in Procs : /\ WF_vars(\E ok \in BOOLEAN : testRpcConnection(p, ok))
                      /\ WF_vars(backoffEnds(p))

\* ------ SpecNonce: MaxProcs callers of createMemory, and a node whose
\* pending transaction count is anything up to MaxPending, or no answer
NonceResponses == {<<>>} \cup {<<n>> : n \in 0..MaxPending}

NextNonce ==
  \/ \E p \in Procs : throttleRequest(p)
  \/ \E p \in Procs : sleepEnds(p)
  \/ \E p \in Procs :
       createMemory(p, Plain("hello world", {}, ShortLen), "conversation", Work, {},
                    <<>>, FALSE, Salt(1))
  \/ \E p \in Procs : acquireTxLock(p)
  \/ \E p \in Procs : testRpcConnectionWithRetry(p)
  \/ \E p \in Procs, response \in NonceResponses : waitForNonceAvailability(p, response)
  \/ \E p \in Procs : sendTransaction(p)
  \/ \E p \in Procs, outcome \in {"hash", "nohash", "fail"} : sendResponse(p, outcome)
  \/ \E p \in Procs, ok \in BOOLEAN : annotateResponse(p, ok)
  \/ nonceLockTimeout

SpecNonce == Init /\ [][NextNonce]_vars

\* -- SpecCrud: one caller; create, update, grant, revoke and delete; every
\* write that succeeds reports its transaction hash
NextCrud ==
  \/ createMemory(1, Plain("hello world", {}, ShortLen), "conversation", Work,
                  {Word("ref", {nextId})}, <<>>, FALSE, Salt(1))
  \/ throttleRequest(1)
  \/ sleepEnds(1)
  \/ acquireTxLock(1)
  \/ testRpcConnectionWithRetry(1)
  \/ \E response \in IdleNode : waitForNonceAvailability(1, response)
  \/ sendTransaction(1)
  \/ \E outcome \in {"hash", "fail"} : sendResponse(1, outcome)
  \/ \E ok \in BOOLEAN : annotateResponse(1, ok)
  \/ nonceLockTimeout
  \/ \E id \in Ids : updateMemory(1, id, [category |-> Home], TRUE, Salt(1))
  \/ \E id \in Ids : grantPermission(1, id, AgentX, ReadWrite, TRUE, Salt(1), Salt(1))
  \/ \E id \in Ids : revokePermission(1, id, AgentX, TRUE, Salt(1), Salt(1))
  \/ \E ok \in BOOLEAN : updateResponse(1, ok)
  \/ \E id \in Ids, deleteOk \in BOOLEAN : deleteMemory(1, id, TRUE, deleteOk)

SpecCrud == Init /\ [][NextCrud]_vars

\* --------------- SpecKeys: MaxProcs callers of the key management service
Passwords == {"pw", "other", ""}

GivenSalts == {Salt(1), Salt(2)}

\* generateRandomSalt(): a salt no earlier call was given or drew
FreshSalt == Salt(Cardinality(GivenSalts) + 1 + Len(keyCalls))

NextKeys ==
  \/ \E p \in Procs, pw \in Passwords : initializeWithPassword(p, pw)
  \/ \E p \in Procs : clearSession(p)
  \/ \E p \in Procs, memoryId \in Ids, salt \in GivenSalts \cup {NoSalt, EmptySalt} :
       generateMemoryKey(p, memoryId, salt, FreshSalt)
  \/ \E p \in Procs : deriveKeyReturns(p)
  \/ \E p \in Procs, memoryId \in Ids : getKey(p, MemoryKeyId(memoryId))

SpecKeys == Init /\ [][NextKeys]_vars

\* ---- SpecDecrypt: one caller; encrypted creates and reads, with the
\* password entered rightly or wrongly
NextDecrypt ==
  \/ \E pw \in Passwords \ {""} : initializeWithPassword(1, pw)
  \/ clearSession(1)
  \/ throttleRequest(1)
  \/ sleepEnds(1)
  \/ createMemory(1, Plain("hello world", {}, ShortLen), "conversation", Work,
                  {Word("ref", {nextId})}, <<>>, TRUE, Salt(1))
  \/ Upload(1)
  \/ nonceLockTimeout
  \/ \E id \in Ids, remoteOk \in BOOLEAN : getMemory(1, id, remoteOk, Salt(2))

SpecDecrypt == Init /\ [][NextDecrypt]_vars

\* ------- SpecGrant: MaxProcs callers; creates and grants to two agents
AgentY == "agentY"

Agents == {AgentX, AgentY}

HasEntry(permissions, agentId) ==
  \E i \in 1..Len(permissions) : permissions[i].agentId = agentId

NextGrant ==
  \/ \E p \in Procs : throttleRequest(p)
  \/ \E p \in Procs : sleepEnds(p)
  \/ \E p \in Procs :
       createMemory(p, Plain("hello world", {}, ShortLen), "conversation", Work,
                    {Word("ref", {nextId})}, <<>>, FALSE, Salt(1))
  \/ \E p \in Procs : Upload(p)
  \/ nonceLockTimeout
  \/ \E p \in Procs, id \in Ids \ Pending, agentId \in Agents, remoteOk \in BOOLEAN :
       grantPermission(p, id, agentId, ReadWrite, remoteOk, Salt(1), Salt(1))
  \/ \E p \in Procs, ok \in BOOLEAN : updateResponse(p, ok)

SpecGrant == Init /\ [][NextGrant]_vars

\* -- SpecRepeat: one caller; creates, and grants whose actions argument
\* may name an action twice
ActionLists == {<<"read">>, <<"read", "read">>, ReadWrite}

NextRepeat ==
  \/ createMemory(1, Plain("hello world", {}, ShortLen), "conversation", Work,
                  {Word("ref", {nextId})}, <<>>, FALSE, Salt(1))
  \/ throttleRequest(1)
  \/ sleepEnds(1)
  \/ Upload(1)
  \/ nonceLockTimeout
  \/ \E id \in Ids, agentId \in Agents, actions \in ActionLists, remoteOk \in BOOLEAN :
       grantPermission(1, id, agentId, actions, remoteOk, Salt(1), Salt(1))
  \/ \E ok \in BOOLEAN : updateResponse(1, ok)

SpecRepeat == Init /\ [][NextRepeat]_vars

\* ----- SpecPage: one caller searches an account that owns many records
\* a record an earlier session stored
OwnedRecord(id, type) ==
  memoryData(NewMemory(id, Plain("hello world", {}, ShortLen), type, Work, {}, <<>>,
                       FALSE, MemoryKey(NoMaster, id, NoSalt)))

InitOwned ==
  /\ \E n \in 0..MaxOwned : \E types \in [1..n -> SearchTypes] :
        /\ ledger = [h \in 1..n |-> OwnedRecord(h, types[h])]
        /\ nextHandle = n + 1
        /\ entityKeys = 1..n
        /\ nextId = n + 1
  /\ masterKey = NoMaster
  /\ sessionKeys = <<>>
  /\ encKeys = <<>>
  /\ txLock = FALSE
  /\ nonceLock = FALSE
  /\ currentNonce = <<>>
  /\ okUpdates = [i \in Ids |-> 0]
  /\ created = <<>>
  /\ granted = [i \in Ids |-> "none"]
  /\ pc = [p \in Procs |-> "idle"]
  /\ loc = [p \in Procs |-> IdleLoc]
  /\ ret = Ret("none", 0, "", <<>>, FALSE, TRUE)
  /\ clock = REQUEST_DELAY
  /\ lastRequestTime = 0
  /\ calls = 0
  /\ writeLog = <<>>
  /\ keyCalls = <<>>

\* no limit, or a page of one record
PageQueries == {Query(EmptyQuery, type, NoCategory, {}, limit, 0) :
                  type \in {"", "learned_fact"}, limit \in {0, 1}}

NextPage ==
  \E q \in PageQueries, remoteOk \in BOOLEAN : searchMemories(1, q, remoteOk, {})

SpecPage == InitOwned /\ [][NextPage]_vars

\* ---- SpecRetrieve: one caller; creates and retrieveMemory by entity key,
\* on an account that also owns entities this program did not write
ForeignValues ==
  LET r == OwnedRecord(1, "conversation")
  IN << [raw |-> "empty"], [raw |-> "not json"], [raw |-> "null"],
        [f \in DOMAIN r \ {"id"} |-> r[f]],
        [f \in DOMAIN r \ {"content"} |-> r[f]],
        [f \in DOMAIN r \ {"permissions"} |-> r[f]] >>

InitForeign ==
  /\ \E n \in {0, Len(ForeignValues)} :
        /\ ledger = [h \in 1..n |-> ForeignValues[h]]
        /\ nextHandle = n + 1
  /\ entityKeys = {}
  /\ nextId = 1
  /\ masterKey = NoMaster
  /\ sessionKeys = <<>>
  /\ encKeys = <<>>
  /\ txLock = FALSE
  /\ nonceLock = FALSE
  /\ currentNonce = <<>>
  /\ okUpdates = [i \in Ids |-> 0]
  /\ created = <<>>
  /\ granted = [i \in Ids |-> "none"]
  /\ pc = [p \in Procs |-> "idle"]
  /\ loc = [p \in Procs |-> IdleLoc]
  /\ ret = Ret("none", 0, "", <<>>, FALSE, TRUE)
  /\ clock = REQUEST_DELAY
  /\ lastRequestTime = 0
  /\ calls = 0
  /\ writeLog = <<>>
  /\ keyCalls = <<>>

\* the same without the catch blocks: a value that does not parse throws
retrieveMemoryByKeyThrows(p, entityKey, remoteOk) ==
  /\ pc[p] = "idle"
  /\ ret' = IF remoteOk /\ Retrievable(entityKey)
            THEN Ret("retrieveMemory", entityKey, "", <<retrieveMemory(entityKey)>>,
                     TRUE, remoteOk)
            ELSE IF remoteOk /\ entityKey \in DOMAIN ledger
                    /\ "raw" \in DOMAIN ledger[entityKey]
                    /\ ledger[entityKey].raw # "empty"
            THEN Ret("retrieveMemory", entityKey, "SyntaxError", <<>>, FALSE, remoteOk)
            ELSE Ret("retrieveMemory", entityKey, "", <<>>, FALSE, remoteOk)
  /\ UNCHANGED <<timing, logs>>
  /\ UNCHANGED <<masterKey, sessionKeys, encKeys, ledger, nextHandle, entityKeys,
                 nextId, txLock, nonceLock, currentNonce, okUpdates, created, granted, pc, loc>>

\* GolemStorageService.retrieveMemory(entityKey) on an initialized adapter:
\* null when getStorageValue fails (remoteOk false) or returns nothing,
\* when the text does not parse, and when a required field is missing;
\* otherwise the MemoryEntry
retrieveMemoryByKey(p, entityKey, remoteOk) ==
  /\ pc[p] = "idle"
  /\ ret' = IF remoteOk /\ Retrievable(entityKey)
            THEN Ret("retrieveMemory", entityKey, "", <<retrieveMemory(entityKey)>>,
                     TRUE, remoteOk)
            ELSE Ret("retrieveMemory", entityKey, "", <<>>, FALSE, remoteOk)
  /\ UNCHANGED <<timing, logs>>
  /\ UNCHANGED <<masterKey, sessionKeys, encKeys, ledger, nextHandle, entityKeys,
                 nextId, txLock, nonceLock, currentNonce, okUpdates, created, granted, pc, loc>>

NextRetrieve ==
  \/ \E content \in {Plain("hello world", {}, ShortLen), Plain("", {}, 0)},
        category \in {Work, NoCategory}, tags \in TagSets(nextId) :
       createMemory(1, content, "conversation", category, tags, <<>>, FALSE, Salt(1))
  \/ throttleRequest(1)
  \/ sleepEnds(1)
  \/ Upload(1)
  \/ nonceLockTimeout
  \/ \E entityKey \in 1..nextHandle, remoteOk \in BOOLEAN :
       retrieveMemoryByKey(1, entityKey, remoteOk)

SpecRetrieve == InitForeign /\ [][NextRetrieve]_vars

\* the owned records that pass every filter of the query
MatchesFilters(m, q) ==
  /\ MatchesQuery(m, q.query)
  /\ q.type # "" => m.type = q.type
  /\ q.category # NoCategory => m.category = q.category
  /\ q.tags # {} => q.tags \cap m.tags # {}

AllMatching(q) ==
  {h \in DOMAIN ledger : Retrievable(h) /\ MatchesFilters(ledger[h], q)}

\* ------------------------------------------------------------- claims
\* an owned entity holds a record with this id
Stored(id) == \E h \in DOMAIN ledger : ledger[h].id = id

StoredRecord(id) == ledger[CHOOSE h \in DOMAIN ledger : ledger[h].id = id]

\* C1: for every record that createMemory returned and that is still on
\* the ledger, getMemory(R.id) returns a non-null record with id R.id,
\* whatever the record's content and tags are.
C1_GetMemoryFindsRecord ==
  (/\ AllIdle
   /\ ret.op = "getMemory"
   /\ ret.remoteOk
   /\ ret.id \in DOMAIN created
   /\ Stored(ret.id))
  => (ret.recs # <<>> /\ ret.recs[1].id = ret.id)

\* C2: with key management initialized, createMemory(P, encrypted = true)
\* returns a record that is marked encrypted and names its key id, and a
\* following getMemory(R.id) returns a record whose content equals P.
C2_EncryptedRoundTrip ==
  /\ (ret.op = "createMemory" /\ ret.recs # <<>> /\ ret.recs[1].encrypted)
       => ret.recs[1].keyId = MemoryKeyId(ret.id)
  /\ (/\ AllIdle
      /\ ret.op = "getMemory"
      /\ ret.remoteOk
      /\ isInitialized
      /\ ret.id \in DOMAIN created
      /\ Stored(ret.id)
      /\ StoredRecord(ret.id).encrypted)
     => (ret.recs # <<>> /\ ret.recs[1].content = created[ret.id])

\* C3: at any time at most one caller has a write submission (the entity
\* creation of uploadMemory, its hash annotation, or the entity update of
\* updateMemory) in flight at the ledger.
C3_OneSubmissionInFlight ==
  Cardinality({p \in Procs : pc[p] \in {"sending", "annotating", "updating"}}) <= 1

\* C4: the version stored for a record is 1 plus the number of updateMemory
\* calls on its id that succeeded, in every interleaving of the callers.
C4_VersionCountsUpdates ==
  \A h \in DOMAIN ledger : ledger[h].version = 1 + okUpdates[ledger[h].id]

\* C5: every record on the ledger that is marked encrypted has a complete
\* serialized envelope as its content: not plaintext, not a truncated
\* envelope.
C5_EncryptedContentIsEnvelope ==
  \A h \in DOMAIN ledger : ledger[h].encrypted => ParsesAsEnvelope(ledger[h].content)

\* C6: no entity on the ledger carries derived key material, a random key
\* or the master secret in its key metadata: encryptionKeyId holds a key
\* id (or nothing) and encryptionSalt holds a salt (or nothing).
C6_NoKeyMaterialOnLedger ==
  \A h \in DOMAIN ledger :
    /\ ledger[h].keyId \in {NoKeyId, MemoryKeyId(ledger[h].id)}
    /\ ledger[h].salt[1] \notin {"derived", "random", "master"}
    /\ ledger[h].salt \in {NoSalt} \cup Salts

\* an encrypted record with key id and salt that an update wrote
C6_Witness ==
  \E h \in DOMAIN ledger :
    /\ ledger[h].encrypted
    /\ ledger[h].keyId # NoKeyId
    /\ ledger[h].salt # NoSalt
    /\ ledger[h].version > 1

\* C7: createMemory never fails because of the record's size, and a record
\* whose serialized content is over the ceiling is stored cut, with the
\* truncation marker and metadata.size equal to the cut length.
C7_OversizeIsTruncatedNotRejected ==
  ret.op = "createMemory" =>
    /\ ret.err # "TransactionTooLarge"
    /\ ret.err = "" =>
         LET rec == ret.recs[1]
             full == IF rec.encrypted
                     THEN created[ret.id].len + ENVELOPE_OVERHEAD
                     ELSE created[ret.id].len
         IN full > MAX_CONTENT_SIZE =>
              /\ rec.content.trunc
              /\ rec.content.len <= MAX_CONTENT_SIZE
              /\ rec.size = rec.content.len

\* C8: a getMemory call for an id that no owned record has returns null,
\* a deleteMemory call for such an id returns false; neither throws and
\* neither changes the ledger or the tracked handles.
C8_AbsentIdIsNullOrFalse ==
  [][(/\ ret' # ret
      /\ ret'.op \in {"getMemory", "deleteMemory"}
      /\ ~Stored(ret'.id))
     => (/\ ret'.recs = <<>>
         /\ ~ret'.flag
         /\ ret'.err = ""
         /\ ledger' = ledger
         /\ entityKeys' = entityKeys)]_vars

\* getMemory returned null for an id no record has, although the adapter's
\* text search for it matched an owned record
C8_Witness ==
  /\ AllIdle
  /\ ret.op = "getMemory"
  /\ ret.remoteOk
  /\ ~Stored(ret.id)
  /\ ret.recs = <<>>
  /\ \E h \in DOMAIN ledger : Includes(ledger[h].content, IdText(ret.id))

\* C9: searchMemories with a type filter (and no text) returns exactly the
\* owned records of that type, and facets.types[t] is the number of
\* returned records of type t, for every type t.
C9_TypeFilterAndFacets ==
  (/\ AllIdle
   /\ ret.op = "searchMemories"
   /\ ret.remoteOk
   /\ ret.query.type # ""
   /\ ret.query.query = EmptyQuery)
  => /\ {ret.recs[i].id : i \in 1..Len(ret.recs)}
          = {ledger[h].id : h \in {k \in DOMAIN ledger : ledger[k].type = ret.query.type}}
     /\ \A t \in MemoryTypes :
          ret.facets.types[t] = Cardinality({i \in 1..Len(ret.recs) : ret.recs[i].type = t})

\* C10: once grantPermission(id, agent, actions) has returned true,
\* getMemoryPermissions(id) has an entry for the agent with every granted
\* action; once a following revokePermission(id, agent) has returned true,
\* it has no entry for the agent.
C10_GrantThenListed ==
  (AllIdle /\ ret.op = "getMemoryPermissions" /\ ret.remoteOk)
  => /\ granted[ret.id] = "granted" =>
          \E i \in 1..Len(ret.perms) :
            /\ ret.perms[i].agentId = AgentX
            /\ \A j \in 1..Len(ReadWrite) :
                 \E k \in 1..Len(ret.perms[i].actions) :
                   ret.perms[i].actions[k] = ReadWrite[j]
     /\ granted[ret.id] = "revoked" =>
          \A i \in 1..Len(ret.perms) : ret.perms[i].agentId # AgentX

\* C11: any two generateMemoryKey(memoryId, salt) calls with the same
\* memoryId and salt under the same master secret return the same key
\* material, under the key id "memory_" + memoryId; a call without a salt
\* derives from a random salt that no other call used.
C11_KeyDeterminism ==
  \A i \in 1..Len(keyCalls) :
    /\ keyCalls[i].key.keyId = MemoryKeyId(keyCalls[i].memoryId)
    /\ \A j \in 1..Len(keyCalls) :
         /\ (/\ keyCalls[i].salt # NoSalt
             /\ keyCalls[j].salt = keyCalls[i].salt
             /\ keyCalls[j].memoryId = keyCalls[i].memoryId
             /\ keyCalls[j].master = keyCalls[i].master)
            => keyCalls[j].key.privateKey = keyCalls[i].key.privateKey
         /\ (keyCalls[i].salt = NoSalt /\ j # i)
            => /\ keyCalls[i].key.salt \notin GivenSalts \cup {NoSalt, EmptySalt}
               /\ keyCalls[j].key.salt # keyCalls[i].key.salt

\* C12: when the session key cache no longer holds the key of a stored
\* encrypted record (clearSession, then initializeWithPassword with the
\* same password), getMemory(id) regenerates the key from the stored salt
\* and returns content identical to the plaintext given at creation.
C12_RegeneratedKeyDecrypts ==
  [][\A id \in Ids, rndSalt \in Salts :
       (/\ getMemory(1, id, TRUE, rndSalt)
        /\ isInitialized
        /\ id \in DOMAIN created
        /\ Stored(id)
        /\ StoredRecord(id).encrypted
        /\ ~hasKey(sessionKeys, MemoryKeyId(id)))
       => (ret'.recs # <<>> /\ ret'.recs[1].content = created[id])]_vars

\* C13: getMemory on a stored encrypted record never throws and returns
\* the record: with its plaintext or, when key management is not
\* initialized or no decryption strategy works, with the stored ciphertext
\* envelope unchanged; never null.
C13_DecryptionFailureKeepsCiphertext ==
  [][\A id \in Ids, rndSalt \in Salts :
       (/\ getMemory(1, id, TRUE, rndSalt)
        /\ id \in DOMAIN created
        /\ Stored(id)
        /\ StoredRecord(id).encrypted)
       => /\ ret'.err = ""
          /\ ret'.recs # <<>>
          /\ ret'.recs[1].content \in {StoredRecord(id).content, created[id]}
          /\ ~isInitialized => ret'.recs[1].content = StoredRecord(id).content]_vars

\* C14: a createMemory call with encrypted = true made while key
\* management holds no master secret fails with the key management not
\* initialized error; it writes nothing to the ledger, submits nothing and
\* adds no key to the session key cache.
C14_EncryptedCreateNeedsKeys ==
  [][\A content \in Contents, category \in {Work, Bulk}, tags \in TagSets(nextId),
        rndSalt \in Salts :
       (/\ createMemory(1, content, "conversation", category, tags, <<>>, TRUE, rndSalt)
        /\ masterKey = NoMaster)
       => /\ ret'.op = "createMemory"
          /\ ret'.err = "KeyManagementNotInitialized"
          /\ ret'.recs = <<>>
          /\ pc'[1] = "idle"
          /\ ledger' = ledger
          /\ writeLog' = writeLog
          /\ sessionKeys' = sessionKeys]_vars

\* such a call has failed, with a record already on the ledger and a key
\* in the cache or not
C14_Witness ==
  /\ ret.op = "createMemory"
  /\ ret.err = "KeyManagementNotInitialized"
  /\ masterKey = NoMaster
  /\ pc[1] = "idle"
  /\ ledger # <<>>

\* C15: isInitialized() is false before the first initializeWithPassword,
\* true after initializeWithPassword(p) for every password p, false after
\* clearSession, and no other call changes it: it is true exactly when a
\* master secret is set.
C15_InitializedIffMasterSet ==
  /\ ~isInitialized
  /\ [][((\E p \in Procs, pw \in Passwords : initializeWithPassword(p, pw))
           => isInitialized')
        /\ ((\E p \in Procs : clearSession(p)) => ~isInitialized')
        /\ (isInitialized' = (masterKey' # NoMaster))]_vars

\* C16: from clearSession() until the next initializeWithPassword, every
\* getKey(k) returns undefined and every generateMemoryKey call fails with
\* the not-initialized error.
C16_ClearedUntilInitialized ==
  [][/\ \A p \in Procs, memoryId \in Ids :
          (getKey(p, MemoryKeyId(memoryId)) /\ masterKey = NoMaster) => ~ret'.flag
     /\ \A p \in Procs, memoryId \in Ids, salt \in GivenSalts \cup {NoSalt, EmptySalt} :
          (generateMemoryKey(p, memoryId, salt, FreshSalt) /\ masterKey = NoMaster)
          => (ret'.err = "MasterKeyNotInitialized" /\ pc'[p] = "idle")]_vars

\* C17: any two write calls dispatched to the ledger are at least
\* REQUEST_DELAY apart, also when createMemory calls run concurrently.
C17_DispatchesSpaced ==
  \A i \in 1..Len(writeLog), j \in 1..Len(writeLog) :
    i < j => writeLog[j].at - writeLog[i].at >= REQUEST_DELAY

\* C18: createMemory calls reach the ledger in the order they were issued:
\* of two entity creations, the one submitted first belongs to the call
\* that was issued first.
C18_FifoDispatch ==
  \A i \in 1..Len(writeLog), j \in 1..Len(writeLog) :
    (/\ i < j
     /\ writeLog[i].call = "sendTransaction"
     /\ writeLog[j].call = "sendTransaction")
    => writeLog[i].ticket < writeLog[j].ticket

\* the await points of uploadMemory at which the caller holds the lock
HoldsTxLock == {"testRpc", "nonce", "submit", "sending", "annotating"}

\* C19: whenever a caller leaves uploadMemory after it took the
\* single-writer lock, by return or by exception, the lock is free again;
\* the lock is never held while no caller is inside uploadMemory.
C19_TxLockReleased ==
  [][/\ \A p \in Procs : (pc[p] \in HoldsTxLock /\ pc'[p] = "idle") => ~txLock'
     /\ txLock' => \E p \in Procs : pc'[p] \in HoldsTxLock]_vars

\* an upload failed, and after it another caller has taken the lock
C19_Witness ==
  /\ ret.op = "createMemory"
  /\ ret.err = "StorageFailure"
  /\ txLock
  /\ \E p \in Procs : pc[p] = "testRpc"

\* C20: a successful update of the record stored at a handle creates a new
\* ledger entity and returns its handle, different from the old one; the
\* entity at the old handle stays as it was.
C20_UpdateCreatesNewEntity ==
  [][(updateResponse(1, TRUE) /\ ret'.flag)
     => LET h == loc[1].handle
        IN /\ ret'.recs[1].ipfsHash # h
           /\ h \in DOMAIN ledger'
           /\ ledger'[h] = ledger[h]
           /\ Cardinality(DOMAIN ledger') = Cardinality(DOMAIN ledger) + 1]_vars

C22_FailedSearchIsEmpty ==
  (AllIdle /\ ret.op = "searchMemories")
  => /\ ret.err = ""
     /\ ~ret.remoteOk => (ret.recs = <<>> /\ ret.totalCount = 0)

\* C23: an updateMemory call whose updates carry no content leaves the
\* content stored on the ledger for the record as it was.
C23_ContentKeptWithoutContentUpdate ==
  [][\A p \in Procs :
       (/\ pc[p] = "updating"
        /\ loc[p].op = "updateMemory"
        /\ ~loc[p].contentUpdated
        /\ pc'[p] = "idle"
        /\ ret'.flag)
       => ledger'[loc[p].handle].content = ledger[loc[p].handle].content]_vars

\* C24: every record on the ledger that is marked encrypted has content
\* that the key derived from the master secret, the record's id and its
\* metadata.encryptionSalt decrypts, whatever creates and updates came
\* before.
C24_SaltRegeneratesKey ==
  \A h \in DOMAIN ledger :
    ledger[h].encrypted
      => Decrypts(ledger[h].content,
                  deriveKey(Password("pw"), ledger[h].id, ledger[h].salt))

\* C25: grants do not lose updates: when a grantPermission call returns
\* true, every agent that had an entry in the stored permission list of
\* the record (put there by a grant that returned true) still has one, so
\* that after two concurrent grants for different agents that both
\* returned true the stored list has entries for both.
C25_GrantsNotLost ==
  [][\A p \in Procs :
       (/\ pc[p] = "updating"
        /\ loc[p].op = "grantPermission"
        /\ pc'[p] = "idle"
        /\ ret'.flag)
       => \A agentId \in Agents :
            HasEntry(ledger[loc[p].handle].permissions, agentId)
              => HasEntry(ledger'[loc[p].handle].permissions, agentId)]_vars

\* C26: in searchMemories limit and offset come after every filter: with
\* no limit asked, the result holds every owned record that passes all
\* filters, and totalCount counts all of them whatever the limit is.
C26_LimitAfterFilters ==
  (AllIdle /\ ret.op = "searchMemories" /\ ret.remoteOk)
  => /\ ret.totalCount = Cardinality(AllMatching(ret.query))
     /\ ret.query.limit = 0
          => {ret.recs[i].ipfsHash : i \in 1..Len(ret.recs)} = AllMatching(ret.query)

\* C27: with key management initialized, getMemory hands back the stored
\* ciphertext of an encrypted record only when every strategy fails: the
\* key cached under encryptionKeyId does not decrypt it, the key
\* regenerated from encryptionSalt does not, and no key of the cache does.
C27_CiphertextOnlyAfterAllStrategies ==
  [][\A id \in Ids :
       (/\ getMemory(1, id, TRUE, Salt(2))
        /\ isInitialized
        /\ Stored(id)
        /\ StoredRecord(id).encrypted
        /\ ret'.recs # <<>>
        /\ ret'.recs[1].content = StoredRecord(id).content)
       => LET m == StoredRecord(id)
          IN /\ ~(/\ hasKey(sessionKeys, m.keyId)
                  /\ Decrypts(m.content, sessionKeys[m.keyId].privateKey))
             /\ ~Decrypts(m.content, deriveKey(masterKey, id, m.salt))
             /\ \A k \in DOMAIN sessionKeys' :
                  ~Decrypts(m.content, sessionKeys'[k].privateKey)]_vars

\* C28: the steps of every uploadMemory execution come in the order
\* acquire write lock, test connectivity, acquire nonce, submit write,
\* capture transaction hash, release lock: each step is entered from the
\* one before it with the lock held, one caller at a time, and the lock
\* is released only by a caller whose submission has returned or failed
\* (or was refused before it), never while a submission is in flight.
C28_UploadStepOrder ==
  [][/\ \A p \in Procs :
          /\ (pc'[p] = "testRpc" /\ pc[p] # "testRpc")
               => (pc[p] = "acquireTxLock" /\ ~txLock /\ txLock')
          /\ (pc'[p] = "nonce" /\ pc[p] # "nonce")
               => (pc[p] = "testRpc" /\ txLock /\ txLock')
          /\ (pc'[p] = "submit" /\ pc[p] # "submit")
               => (pc[p] = "nonce" /\ txLock /\ txLock' /\ nonceLock')
          /\ (pc'[p] = "sending" /\ pc[p] # "sending")
               => (pc[p] = "submit" /\ txLock /\ txLock')
          /\ (pc'[p] = "annotating" /\ pc[p] # "annotating")
               => (pc[p] = "sending" /\ txLock /\ txLock')
     /\ Cardinality({q \in Procs : pc'[q] \in HoldsTxLock}) <= 1
     /\ (txLock /\ ~txLock')
          => (/\ \A q \in Procs : pc'[q] \notin {"sending", "annotating"}
              /\ \E q \in Procs : /\ pc[q] \in {"submit", "sending", "annotating"}
                                   /\ pc'[q] = "idle")]_vars

\* an upload went through every step, hash annotation included, and has
\* released the lock while another caller waits for it
C28_Witness ==
  /\ ret.op = "createMemory"
  /\ ret.err = ""
  /\ ~txLock
  /\ \E i \in 1..Len(writeLog) : writeLog[i].call = "updateEntities"
  /\ \E p \in Procs : pc[p] = "acquireTxLock"

\* C29: with concurrent createMemory calls whose remote calls all
\* settle, every caller that waits for the write lock gets it, and
\* every caller that is inside createMemory completes.
C29_EveryCallerCompletes ==
  \A p \in Procs :
    /\ (pc[p] = "acquireTxLock") ~> (pc[p] = "testRpc")
    /\ (pc[p] # "idle") ~> (pc[p] = "idle")

\* a caller waits for the lock while another caller's submission is in
\* flight
C29_Witness ==
  \E p \in Procs, q \in Procs :
    /\ pc[p] = "acquireTxLock"
    /\ pc[q] = "sending"
    /\ txLock

\* C30: also when the remote node never answers, an upload whose write
\* submission is out ends (with a failure), and a caller that waits for
\* the write lock gets it.
C30_SilentRemoteDoesNotBlock ==
  \A p \in Procs :
    /\ (pc[p] \in {"sending", "annotating"}) ~> (pc[p] = "idle")
    /\ (pc[p] = "acquireTxLock") ~> (pc[p] \in HoldsTxLock)

\* ------------------------------------------------------------------ C31
\* C31: when the connectivity test has failed on every attempt, the
\* upload ends there with a StorageFailure and without a write: the step
\* on which the last attempt fails returns the error, and no caller whose
\* test failed is found in the later steps of uploadMemory
C31_FailedTestFailsUpload ==
  /\ [](\A p \in Procs :
          (pc[p] \in {"nonce", "submit", "sending", "annotating"}
             /\ "rpcFailed" \in DOMAIN loc[p])
          => ~loc[p].rpcFailed)
  /\ [][\A p \in Procs :
          (testRpcConnection(p, FALSE) /\ Attempts(p) = maxAttempts - 1)
          => (pc'[p] = "idle" /\ ret'.err = "StorageFailure" /\ writeLog' = writeLog)]_vars

C33_HashIsBestEffort ==
  [][\A p \in Procs :
       (sendResponse(p, "nohash") \/ annotateResponse(p, FALSE))
       => (/\ pc'[p] = "idle"
           /\ ret'.op = "createMemory" /\ ret'.err = "" /\ ret'.flag
           /\ Len(ret'.recs) = 1
           /\ ret'.recs[1].ipfsHash \in DOMAIN ledger'
           /\ ret'.recs[1].ipfsHash \in entityKeys'
           /\ ~txLock')]_vars

\* a first createMemory has returned its memory after a write for which
\* no hash was captured: no hash update was ever sent
C33_Witness ==
  /\ AllIdle
  /\ ret.op = "createMemory" /\ ret.err = "" /\ Len(ret.recs) = 1
  /\ Len(writeLog) = 1 /\ writeLog[1].call = "sendTransaction"
  /\ ret.recs[1].ipfsHash \in DOMAIN ledger

\* ------------------------------------------------------------------ C34
\* C34: the tracked handle set changes only together with the ledger: a
\* handle is added only if its entity exists on the ledger, a handle is
\* removed only if its entity is gone from the ledger, and a deleteMemory
\* that returns false leaves the tracked set as it was
C34_TrackedSetFollowsLedger ==
  [][/\ \A h \in entityKeys' \ entityKeys : h \in DOMAIN ledger'
     /\ \A h \in entityKeys \ entityKeys' : h \notin DOMAIN ledger'
     /\ \A id \in Ids, remoteOk \in BOOLEAN, deleteOk \in BOOLEAN :
          (deleteMemory(1, id, remoteOk, deleteOk) /\ ~ret'.flag)
          => (entityKeys' = entityKeys)]_vars

\* ------------------------------------------------------------------ C35
\* C35: every record on the ledger carries the length of its stored
\* content as metadata.size and the checksum of its stored content as
\* metadata.checksum, after any sequence of creates and updates
C35_SizeAndChecksumMatchContent ==
  \A h \in DOMAIN ledger :
    /\ ledger[h].size = ledger[h].content.len
    /\ ledger[h].checksum = generateChecksum(ledger[h].content)

\* ------------------------------------------------------------------ C36
\* C36: retrieveMemory of a handle whose stored value is empty, does not
\* parse as a serialized record, or lacks one of id, content and
\* accessPolicy returns null, and throws nothing
C36_MalformedIsNotFound ==
  [][\A h \in DOMAIN ledger, remoteOk \in BOOLEAN :
       (/\ retrieveMemoryByKey(1, h, remoteOk)
        /\ \/ "raw" \in DOMAIN ledger[h]
           \/ \E f \in RequiredFields : f \notin DOMAIN ledger[h])
       => (ret'.recs = <<>> /\ ret'.err = "" /\ ~ret'.flag)]_vars

\* the last call was a retrieveMemory of a value that is no JSON object,
\* made while the node answered
C36_Witness ==
  /\ ret.op = "retrieveMemory"
  /\ ret.remoteOk
  /\ ret.id \in DOMAIN ledger
  /\ "raw" \in DOMAIN ledger[ret.id]
  /\ ledger[ret.id].raw = "not json"

\* ------------------------------------------------------------------ C37
\* C37: a record that uploadMemory accepted, empty content and empty tags
\* included, comes back from retrieveMemory on the returned handle with
\* the same id, content, type, category, tags, encrypted flag, access
\* policy and metadata
C37_UploadRetrieveRoundTrip ==
  (ret.op = "createMemory" /\ ret.err = "")
  => LET r == ret.recs[1]
     IN /\ Retrievable(r.ipfsHash)
        /\ \A f \in DOMAIN r \ {"ipfsHash"} : retrieveMemory(r.ipfsHash)[f] = r[f]

C39_OneEntityPerId ==
  \A h1 \in DOMAIN ledger, h2 \in DOMAIN ledger :
    (ledger[h1].id = ledger[h2].id) => (h1 = h2)

\* of two records one is left, updated twice and carrying a grant, and
\* the other has just been deleted
C39_Witness ==
  /\ Cardinality(DOMAIN ledger) = 1
  /\ \E h \in DOMAIN ledger : ledger[h].version = MaxVersion /\ ledger[h].permissions # <<>>
  /\ ret.op = "deleteMemory" /\ ret.flag

\* ------------------------------------------------------------------ C40
\* C40: after any sequence of grantPermission calls the permission list
\* of a stored record has at most one entry per agent and no entry names
\* an action twice, also when a call's actions argument repeats an action
C40_GrantsAreSets ==
  \A h \in DOMAIN ledger :
    LET ps == ledger[h].permissions
    IN /\ \A i \in 1..Len(ps), j \in 1..Len(ps) :
            (ps[i].agentId = ps[j].agentId) => (i = j)
       /\ \A i \in 1..Len(ps) :
            \A a \in 1..Len(ps[i].actions), b \in 1..Len(ps[i].actions) :
              (ps[i].actions[a] = ps[i].actions[b]) => (a = b)

====
